---------------------------- MODULE Spec2Model ----------------------------
(***************************************************************************)
(* Model of the template synchronisation engine of rhiza-cli               *)
(* (src/rhiza/commands/sync.py) and of the materialize command, whose      *)
(* entry steps and history writer sync uses                                *)
(* (src/rhiza/commands/materialize.py, src/rhiza/commands/validate.py).    *)
(*                                                                         *)
(* A text file is the sequence of its lines (each line newline-terminated),*)
(* a line is a string; the lock file alone is kept blank by blank.         *)
(* Python's None is the value None below.                                  *)
(***************************************************************************)
EXTENDS Naturals, Integers, Sequences, FiniteSets, TLC

\* ------------------------------------------------------------------------
\* Bounds of the model
\* ------------------------------------------------------------------------

\* longest text (in lines) of the richly varied managed file
MaxLines == 2
\* number of invocations (sync or materialize) in one behaviour
MaxRuns == 2

\* ------------------------------------------------------------------------
\* Values
\* ------------------------------------------------------------------------

\* Python's None: distinct from every text (no text holds this line)
None == << "<None>" >>

Max(a, b) == IF a >= b THEN a ELSE b

\* s[from+1 .. from+cnt], with 0-based start `from` as in the C and Python code
Slice(s, from, cnt) == IF cnt <= 0 THEN << >> ELSE SubSeq(s, from + 1, from + cnt)

\* ------------------------------------------------------------------------
\* git merge-file, as invoked by _merge_file: xdiff's xdl_merge at level
\* XDL_MERGE_ZEALOUS_ALNUM, merge style, no favoured side.
\* ------------------------------------------------------------------------

RECURSIVE LCSLen(_, _)
\* length of a longest common subsequence of the line sequences A and B
LCSLen(A, B) ==
    IF A = << >> \/ B = << >> THEN 0
    ELSE IF Head(A) = Head(B) THEN 1 + LCSLen(Tail(A), Tail(B))
    ELSE Max(LCSLen(Tail(A), B), LCSLen(A, Tail(B)))

RECURSIVE ChangedLines(_, _)
\* the line diff A -> B: a[i] is TRUE when line i of A is removed,
\* b[j] is TRUE when line j of B is added (xdl_do_diff's rchg arrays)
ChangedLines(A, B) ==
    IF A = << >> THEN [a |-> << >>, b |-> [j \in 1..Len(B) |-> TRUE]]
    ELSE IF B = << >> THEN [a |-> [i \in 1..Len(A) |-> TRUE], b |-> << >>]
    ELSE IF Head(A) = Head(B)
         THEN LET r == ChangedLines(Tail(A), Tail(B))
              IN  [a |-> <<FALSE>> \o r.a, b |-> <<FALSE>> \o r.b]
    ELSE IF LCSLen(Tail(A), B) = LCSLen(A, B)
         THEN LET r == ChangedLines(Tail(A), B)
              IN  [a |-> <<TRUE>> \o r.a, b |-> r.b]
    ELSE LET r == ChangedLines(A, Tail(B))
         IN  [a |-> r.a, b |-> <<TRUE>> \o r.b]

\* rchg[i] for a 0-based index i, FALSE outside the file (the sentinels)
Chg(r, i) == i >= 0 /\ i < Len(r) /\ r[i + 1]

RECURSIVE GroupEnd(_, _)
\* the end (exclusive) of the group of changed lines starting at s
GroupEnd(r, s) == IF Chg(r, s) THEN GroupEnd(r, s + 1) ELSE s

RECURSIVE GroupStart(_, _)
\* the start of the group of changed lines ending (exclusive) at e
GroupStart(r, e) == IF Chg(r, e - 1) THEN GroupStart(r, e - 1) ELSE e

\* xdiff group_slide_up / group_slide_down / group_previous / group_next on a
\* compaction state st = [r, gs, ge, os, oe, earliest, emo]: r the flags of the
\* file being compacted, [gs, ge) its current group, [os, oe) the other file's
\* group, emo the "end_matching_other" of xdl_change_compact
CanSlideUp(rec, st) == st.gs > 0 /\ rec[st.gs] = rec[st.ge]

CanSlideDown(rec, st) == st.ge < Len(rec) /\ rec[st.gs + 1] = rec[st.ge + 1]

\* group_slide_up on the file, group_previous on the other file
SlideUp(ro, st) ==
    [st EXCEPT !.r = [@ EXCEPT ![st.gs] = TRUE, ![st.ge] = FALSE],
               !.gs = IF Chg(st.r, st.gs - 2) THEN GroupStart(st.r, st.gs - 2)
                      ELSE st.gs - 1,
               !.ge = st.ge - 1,
               !.oe = st.os - 1,
               !.os = GroupStart(ro, st.os - 1)]

\* group_slide_down on the file, group_next on the other file
SlideDown(ro, st) ==
    [st EXCEPT !.r = [@ EXCEPT ![st.gs + 1] = FALSE, ![st.ge + 1] = TRUE],
               !.gs = st.gs + 1,
               !.ge = GroupEnd(st.r, st.ge + 1),
               !.os = st.oe + 1,
               !.oe = GroupEnd(ro, st.oe + 1)]

\* "if (go.end > go.start) end_matching_other = g.end"
NoteMatch(st) == IF st.oe > st.os THEN [st EXCEPT !.emo = st.ge] ELSE st

RECURSIVE SlideUpAll(_, _, _)
\* "shift the group backward as much as possible"
SlideUpAll(rec, ro, st) ==
    IF CanSlideUp(rec, st) THEN SlideUpAll(rec, ro, SlideUp(ro, st)) ELSE st

RECURSIVE SlideDownAll(_, _, _)
\* "shift the group forward as far as possible"
SlideDownAll(rec, ro, st) ==
    IF CanSlideDown(rec, st) THEN SlideDownAll(rec, ro, NoteMatch(SlideDown(ro, st)))
    ELSE st

\* the highest place of the group: "earliest_end = g.end", and the first
\* chance of a match with the other file
NoteEarliest(st) == NoteMatch([st EXCEPT !.earliest = st.ge, !.emo = -1])

RECURSIVE ShiftGroup(_, _, _)
RECURSIVE ShiftAgain(_, _, _, _)
\* the do ... while (groupsize != g.end - g.start) loop of xdl_change_compact
ShiftGroup(rec, ro, st) ==
    ShiftAgain(rec, ro, st.ge - st.gs,
               SlideDownAll(rec, ro, NoteEarliest(SlideUpAll(rec, ro, st))))

ShiftAgain(rec, ro, groupsize, st) ==
    IF st.ge - st.gs = groupsize THEN st ELSE ShiftGroup(rec, ro, st)

RECURSIVE AlignGroup(_, _, _)
\* "move the group back to line up with the last group of changes from the
\* other file that it can align with"
AlignGroup(rec, ro, st) ==
    IF st.oe = st.os THEN AlignGroup(rec, ro, SlideUp(ro, st)) ELSE st

\* the place xdl_change_compact leaves a shifted group at
SettleGroup(rec, ro, st) ==
    IF st.ge # st.earliest /\ st.emo # -1 THEN AlignGroup(rec, ro, st) ELSE st

\* the group of the state, shifted and settled
PlaceGroup(rec, ro, st) ==
    IF st.ge = st.gs THEN st ELSE SettleGroup(rec, ro, ShiftGroup(rec, ro, st))

\* group_next on both files
NextGroups(ro, st) ==
    [st EXCEPT !.gs = st.ge + 1, !.ge = GroupEnd(st.r, st.ge + 1),
               !.os = st.oe + 1, !.oe = GroupEnd(ro, st.oe + 1)]

RECURSIVE CompactFrom(_, _, _)
RECURSIVE CompactNext(_, _, _)
\* the main loop of xdl_change_compact from the group held in st on
CompactFrom(rec, ro, st) == CompactNext(rec, ro, PlaceGroup(rec, ro, st))

CompactNext(rec, ro, st) ==
    IF st.ge = Len(rec) THEN st.r ELSE CompactFrom(rec, ro, NextGroups(ro, st))

\* xdl_change_compact(xdf, xdfo): the flags r of file rec with every group of
\* changed lines slid to its final place; ro are the other file's flags
ChangeCompact(rec, r, ro) ==
    CompactFrom(rec, ro, [r |-> r, gs |-> 0, ge |-> GroupEnd(r, 0),
                          os |-> 0, oe |-> GroupEnd(ro, 0),
                          earliest |-> 0, emo |-> -1])

RECURSIVE BuildScript(_, _, _, _)
\* xdl_build_script: the hunks <<i1, chg1, i2, chg2>> (0-based starts) of the
\* flags ra, rb, read from line i of A and line j of B on
BuildScript(ra, rb, i, j) ==
    IF i >= Len(ra) /\ j >= Len(rb) THEN << >>
    ELSE IF Chg(ra, i) \/ Chg(rb, j)
         THEN << <<i, GroupEnd(ra, i) - i, j, GroupEnd(rb, j) - j>> >>
              \o BuildScript(ra, rb, GroupEnd(ra, i), GroupEnd(rb, j))
    ELSE BuildScript(ra, rb, i + 1, j + 1)

\* the script of the compacted flags: B is compacted against the compacted A
CompactedScript(B, ra, rb) == BuildScript(ra, ChangeCompact(B, rb, ra), 0, 0)

\* the script of the flags d of the diff A -> B
ScriptOf(A, B, d) == CompactedScript(B, ChangeCompact(A, d.a, d.b), d.b)

\* the edit script A -> B that xdiff hands to the merge
DiffScript(A, B) == ScriptOf(A, B, ChangedLines(A, B))

\* a merge hunk is [mode, i0, chg0, i1, chg1, i2, chg2]; mode 0 is a conflict,
\* 1 takes side 1 (local), 2 takes side 2 (upstream); mode -1 is no hunk at
\* all: both sides made the same change
Hunk(mode, i0, chg0, i1, chg1, i2, chg2) ==
    [mode |-> mode, i0 |-> i0, chg0 |-> chg0, i1 |-> i1, chg1 |-> chg1,
     i2 |-> i2, chg2 |-> chg2]

\* xdl_append_merge: the hunk h joins the last hunk of c when it touches it
AppendMerge(c, h) ==
    IF h.mode = -1 THEN c
    ELSE IF c # << >> /\ (h.i1 <= c[Len(c)].i1 + c[Len(c)].chg1
                          \/ h.i2 <= c[Len(c)].i2 + c[Len(c)].chg2)
    THEN [c EXCEPT ![Len(c)] =
             [@ EXCEPT !.mode = IF h.mode # @ THEN 0 ELSE @,
                       !.chg0 = h.i0 + h.chg0 - c[Len(c)].i0,
                       !.chg1 = h.i1 + h.chg1 - c[Len(c)].i1,
                       !.chg2 = h.i2 + h.chg2 - c[Len(c)].i2]]
    ELSE Append(c, h)

\* the conflict hunk xdl_do_merge builds from two overlapping changes
\* s1 (base -> local) and s2 (base -> upstream)
ConflictHunk(s1, s2) ==
    LET off == s1[1] - s2[1]
        ffo == off + s1[2] - s2[2]
        i0 == IF off > 0 THEN s1[1] - off ELSE s1[1]
        i1 == IF off > 0 THEN s1[3] - off ELSE s1[3]
        i2 == IF off > 0 THEN s2[3] ELSE s2[3] + off
        chg0 == s1[1] + s1[2] - i0
        chg1 == s1[3] + s1[4] - i1
        chg2 == s2[3] + s2[4] - i2
    IN  IF ffo < 0
        THEN Hunk(0, i0, chg0 - ffo, i1, chg1 - ffo, i2, chg2)
        ELSE Hunk(0, i0, chg0, i1, chg1, i2, chg2 + ffo)

\* the hunk one turn of the loops of xdl_do_merge appends, for the changes
\* x1[a] (local) and x2[b] (upstream) not yet consumed
MergeHunk(base, loc, up, x1, x2, a, b) ==
    IF a <= Len(x1) /\ b <= Len(x2)
    THEN IF x1[a][1] + x1[a][2] < x2[b][1]
         THEN Hunk(1, x1[a][1], x1[a][2], x1[a][3], x1[a][4],
                   x2[b][3] - x2[b][1] + x1[a][1], x1[a][2])
         ELSE IF x2[b][1] + x2[b][2] < x1[a][1]
         THEN Hunk(2, x2[b][1], x2[b][2], x1[a][3] - x1[a][1] + x2[b][1], x2[b][2],
                   x2[b][3], x2[b][4])
         ELSE IF x1[a][1] # x2[b][1] \/ x1[a][2] # x2[b][2] \/ x1[a][4] # x2[b][4]
                 \/ Slice(loc, x1[a][3], x1[a][4]) # Slice(up, x2[b][3], x2[b][4])
         THEN ConflictHunk(x1[a], x2[b])
         ELSE Hunk(-1, 0, 0, 0, 0, 0, 0)
    ELSE IF a <= Len(x1)
    THEN Hunk(1, x1[a][1], x1[a][2], x1[a][3], x1[a][4],
              x1[a][1] + Len(up) - Len(base), x1[a][2])
    ELSE Hunk(2, x2[b][1], x2[b][2], x2[b][1] + Len(loc) - Len(base), x2[b][2],
              x2[b][3], x2[b][4])

\* which of the two changes the turn consumes: <<a advances, b advances>>
MergeAdvance(x1, x2, a, b) ==
    IF a <= Len(x1) /\ b <= Len(x2)
    THEN IF x1[a][1] + x1[a][2] < x2[b][1] THEN <<1, 0>>
         ELSE IF x2[b][1] + x2[b][2] < x1[a][1] THEN <<0, 1>>
         ELSE << IF x2[b][1] + x2[b][2] >= x1[a][1] + x1[a][2] THEN 1 ELSE 0,
                 IF x1[a][1] + x1[a][2] >= x2[b][1] + x2[b][2] THEN 1 ELSE 0 >>
    ELSE IF a <= Len(x1) THEN <<1, 0>>
    ELSE <<0, 1>>

RECURSIVE DoMerge(_, _, _, _, _, _, _, _)
\* the hunk-pairing loops of xdl_do_merge over the scripts x1 (from index a)
\* and x2 (from index b); c is the list of merge hunks built so far
DoMerge(base, loc, up, x1, x2, a, b, c) ==
    IF a > Len(x1) /\ b > Len(x2) THEN c
    ELSE DoMerge(base, loc, up, x1, x2,
                 a + MergeAdvance(x1, x2, a, b)[1],
                 b + MergeAdvance(x1, x2, a, b)[2],
                 AppendMerge(c, MergeHunk(base, loc, up, x1, x2, a, b)))

RECURSIVE RefineHunks(_, _, _)
\* the hunks a conflict m splits into, one per hunk of the diff xs between its
\* two sides; no hunk of the diff: the sides are identical (mode 4)
RefineHunks(m, xs, k) ==
    IF xs = << >> THEN << [m EXCEPT !.mode = 4] >>
    ELSE IF k > Len(xs) THEN << >>
    ELSE << [m EXCEPT !.i1 = m.i1 + xs[k][1], !.chg1 = xs[k][2],
                      !.i2 = m.i2 + xs[k][3], !.chg2 = xs[k][4]] >>
         \o RefineHunks(m, xs, k + 1)

RECURSIVE RefineConflicts(_, _, _, _)
\* xdl_refine_conflicts: a conflict both of whose sides hold lines is cut down
\* to the parts where the sides differ
RefineConflicts(loc, up, c, k) ==
    IF k > Len(c) THEN << >>
    ELSE (IF c[k].mode # 0 \/ c[k].chg1 = 0 \/ c[k].chg2 = 0 THEN << c[k] >>
          ELSE RefineHunks(c[k],
                           DiffScript(Slice(loc, c[k].i1, c[k].chg1),
                                      Slice(up, c[k].i2, c[k].chg2)), 1))
         \o RefineConflicts(loc, up, c, k + 1)

\* a line with a letter or a digit (xdiff's lines_contain_alnum, for the lines
\* of this model: only the empty line has none)
LineHasAlnum(l) == l # ""

\* the conflicts p and m, m next after p, are close enough to become one
CloseConflicts(loc, p, m) ==
    /\ p.mode = 0
    /\ m.mode = 0
    /\ ~(m.i1 - (p.i1 + p.chg1) > 3
         /\ \E i \in (p.i1 + p.chg1 + 1)..m.i1 : LineHasAlnum(loc[i]))

RECURSIVE SimplifyMerge(_, _, _, _)
\* xdl_simplify_merge: two conflicts at most 3 lines apart (or more, when the
\* lines between hold no letter or digit) become one; out is the list so far
SimplifyMerge(loc, c, k, out) ==
    IF k > Len(c) THEN out
    ELSE IF out # << >> /\ CloseConflicts(loc, out[Len(out)], c[k])
    THEN SimplifyMerge(loc, c, k + 1,
             [out EXCEPT ![Len(out)] =
                 [@ EXCEPT !.chg1 = c[k].i1 + c[k].chg1 - out[Len(out)].i1,
                           !.chg2 = c[k].i2 + c[k].chg2 - out[Len(out)].i2]])
    ELSE SimplifyMerge(loc, c, k + 1, Append(out, c[k]))

\* the conflict-marker lines, labelled as _merge_file labels them
MarkerLocal(rel_path) == "<<<<<<< local (" \o rel_path \o ")"

MarkerSep == "======="

MarkerUpstream(rel_path) == ">>>>>>> upstream (" \o rel_path \o ")"

\* what xdl_fill_merge_buffer emits for the hunk m
HunkLines(loc, up, m, rel_path) ==
    IF m.mode = 0
    THEN << MarkerLocal(rel_path) >> \o Slice(loc, m.i1, m.chg1)
         \o << MarkerSep >> \o Slice(up, m.i2, m.chg2)
         \o << MarkerUpstream(rel_path) >>
    ELSE (IF m.mode \in {1, 3} THEN Slice(loc, m.i1, m.chg1) ELSE << >>)
         \o (IF m.mode \in {2, 3} THEN Slice(up, m.i2, m.chg2) ELSE << >>)

RECURSIVE FillMerge(_, _, _, _, _, _)
\* xdl_fill_merge_buffer: the merged text, the lines of local from line i on
\* with every hunk of c (from index k) applied
FillMerge(loc, up, c, k, i, rel_path) ==
    IF k > Len(c) THEN Slice(loc, i, Len(loc) - i)
    ELSE IF c[k].mode \in {0, 1, 2, 3}
    THEN Slice(loc, i, c[k].i1 - i) \o HunkLines(loc, up, c[k], rel_path)
         \o FillMerge(loc, up, c, k + 1, c[k].i1 + c[k].chg1, rel_path)
    ELSE FillMerge(loc, up, c, k + 1, i, rel_path)

\* the output of the merge for the final list c of merge hunks
MergeOutput(loc, up, c, rel_path) ==
    [merged |-> FillMerge(loc, up, c, 1, 0, rel_path),
     returncode |-> Cardinality({k \in 1..Len(c) : c[k].mode = 0})]

\* xdl_merge for the scripts x1 (base -> local) and x2 (base -> upstream)
MergeScripts(loc, base, up, x1, x2, rel_path) ==
    IF x1 = << >> THEN [merged |-> up, returncode |-> 0]
    ELSE IF x2 = << >> THEN [merged |-> loc, returncode |-> 0]
    ELSE MergeOutput(loc, up,
             SimplifyMerge(loc,
                 RefineConflicts(loc, up,
                     DoMerge(base, loc, up, x1, x2, 1, 1, << >>), 1),
                 1, << >>),
             rel_path)

\* git merge-file local base upstream: the merged text written into the local
\* file and the number of conflicts (the exit status)
GitMergeFile(loc, base, up, rel_path) ==
    MergeScripts(loc, base, up, DiffScript(base, loc), DiffScript(base, up), rel_path)

\* ------------------------------------------------------------------------
\* 3-way merge of one file
\* ------------------------------------------------------------------------

\* a merge that takes the merged text and forgets the exit status
MergeResultQuiet(result) == << result.merged, FALSE >>

\* the pair _merge_file returns for the result of git merge-file
MergeResult(result) == << result.merged, result.returncode > 0 >>

\* a merge that keeps the local file whenever there is one
_merge_file_ours(base_content, upstream_content, local_content, rel_path) ==
    IF local_content = None THEN <<upstream_content, FALSE>>
    ELSE <<local_content, FALSE>>

\* a merge that, without a base, lets upstream win
_merge_file_upstream_wins(base_content, upstream_content, local_content, rel_path) ==
    IF local_content = None \/ base_content = None THEN <<upstream_content, FALSE>>
    ELSE MergeResult(GitMergeFile(local_content, base_content, upstream_content,
                                  rel_path))

\* _merge_file: <<merged content, had_conflicts>>
_merge_file(base_content, upstream_content, local_content, rel_path) ==
    IF local_content = None THEN <<upstream_content, FALSE>>
    ELSE IF base_content = None /\ local_content = upstream_content
    THEN <<upstream_content, FALSE>>
    ELSE MergeResult(GitMergeFile(local_content,
                                  IF base_content = None THEN << >> ELSE base_content,
                                  upstream_content, rel_path))

\* ------------------------------------------------------------------------
\* Paths and texts
\* ------------------------------------------------------------------------

LOCK_FILE == ".rhiza/template.lock"

TEMPLATE_FILE == ".rhiza/template.yml"

HISTORY_FILE == ".rhiza/history"

OLD_HISTORY_FILE == ".rhiza.history"

\* two files of the template, and a file only an earlier template version held
FileA == "a.txt"

FileB == "b.txt"

FileOld == "old.txt"

\* the directory of the template's own rhiza files
RhizaDir == ".rhiza"

\* every file path of the model, in the order sorted() puts relative paths
PathOrder ==
    << HISTORY_FILE, LOCK_FILE, TEMPLATE_FILE, OLD_HISTORY_FILE, FileA, FileB, FileOld >>

Paths == {PathOrder[k] : k \in 1..Len(PathOrder)}

\* the files under a directory
FilesUnder(dir) ==
    IF dir = RhizaDir THEN {HISTORY_FILE, LOCK_FILE, TEMPLATE_FILE} ELSE {}

RECURSIVE SortedFrom(_, _)
\* the paths of the sequence s in sorted order, each as often as s holds it,
\* from place k of PathOrder on
SortedFrom(s, k) ==
    IF k > Len(PathOrder) THEN << >>
    ELSE SelectSeq(s, LAMBDA q : q = PathOrder[k]) \o SortedFrom(s, k + 1)

\* sorted(paths) of a list of paths
Sorted(s) == SortedFrom(s, 1)

RECURSIVE SeqOfSet(_, _)
\* the paths of the set S as a sorted list, from place k of PathOrder on
SeqOfSet(S, k) ==
    IF k > Len(PathOrder) THEN << >>
    ELSE (IF PathOrder[k] \in S THEN << PathOrder[k] >> ELSE << >>) \o SeqOfSet(S, k + 1)

\* the elements of a sequence
Range(s) == {s[k] : k \in 1..Len(s)}

\* the commits of the template repository; the branch HEAD is the second
Commits == {"c1", "c2"}

\* a commit id the template repository no longer holds (rewritten history)
GoneCommit == "c0"

\* The lock file is read as a whole and stripped, so its text is kept
\* character by character: a sequence of tokens, a token being a blank or a
\* run of characters without blanks (a commit id is one token).
Whitespace == {"\n", " "}

\* str.strip() of a text: the blanks at its start and at its end go
RECURSIVE LStrip(_)
LStrip(t) == IF t # << >> /\ Head(t) \in Whitespace THEN LStrip(Tail(t)) ELSE t

RECURSIVE RStrip(_)
RStrip(t) ==
    IF t # << >> /\ t[Len(t)] \in Whitespace THEN RStrip(SubSeq(t, 1, Len(t) - 1))
    ELSE t

Strip(t) == RStrip(LStrip(t))

\* s + "\n"
WithNewline(s) == s \o << "\n" >>

\* ------------------------------------------------------------------------
\* State
\* ------------------------------------------------------------------------

VARIABLES
    fs,              \* the target repository: path -> text, or None (no file)
    tree,            \* the template repository: commit -> (path -> text or None)
    upstream_head,   \* the commit the template branch points to
    include_paths,   \* template.yml: include
    excluded_paths,  \* template.yml: exclude
    git_head,        \* the branch checked out in the target repository
    offered,         \* the command lines the user issues in this scenario
    runs,            \* the invocations: run id -> its local state
    resolver         \* bundles.yml, the requested bundle names and the resolution

vars ==
    << fs, tree, upstream_head, include_paths, excluded_paths, git_head, offered, runs,
       resolver >>

RunIds == 1..MaxRuns

Strategies == {"merge", "overwrite", "diff"}

NoFiles == [p \in {} |-> << >>]

\* no --target-branch on the command line
NoBranch == ""

\* the branch a --target-branch option names, and the branch the target is on
WorkBranch == "rhiza-sync"

MainBranch == "main"

\* a command line: rhiza sync or rhiza materialize with its options
Command(cmd, strategy, force, target_branch) ==
    [cmd |-> cmd, strategy |-> strategy, force |-> force,
     target_branch |-> target_branch]

\* an invocation that has not started
IdleRun ==
    [pc |-> "idle", strategy |-> "", outcome |-> "",
     upstream_sha |-> None, base_sha |-> None,
     upstream_files |-> NoFiles, base_files |-> NoFiles,
     todo |-> << >>, materialized |-> << >>, conflicts |-> << >>,
     changes |-> 0, report |-> << >>, io |-> << >>, pre |-> NoFiles,
     pre_head |-> ""]

\* what resolve_dependencies gives back: the list it returns, or the
\* ValueError it raises
Returned(resolved) == [raised |-> FALSE, resolved |-> resolved]

ValueError == [raised |-> TRUE, resolved |-> << >>]

\* no bundles.yml, no bundle requested, nothing resolved
IdleResolver ==
    [pc |-> "idle", bundles |-> << >>, bundle_names |-> << >>,
     result |-> Returned(<< >>)]

\* ------------------------------------------------------------------------
\* Lock-file helpers
\* ------------------------------------------------------------------------

\* a lock store that looks for the lock in the wrong place and never finds it
_read_lock_missing(target) == None

\* _read_lock(target): the stripped text of the lock file, None without one
_read_lock(target) ==
    IF target[LOCK_FILE] = None THEN None ELSE Strip(target[LOCK_FILE])

\* a lock store whose write is lost
_write_lock_lost(target, sha) == target

\* a lock store that opens the lock file for appending
_write_lock_appending(target, sha) ==
    [target EXCEPT ![LOCK_FILE] =
        (IF target[LOCK_FILE] = None THEN << >> ELSE target[LOCK_FILE])
        \o WithNewline(sha)]

\* _write_lock(target, sha): the target with sha + "\n" in the lock file
_write_lock(target, sha) == [target EXCEPT ![LOCK_FILE] = WithNewline(sha)]

\* ------------------------------------------------------------------------
\* Snapshot helpers
\* ------------------------------------------------------------------------

\* _get_head_sha: git rev-parse HEAD of the upstream clone, stripped
_get_head_sha == << upstream_head >>

\* _expand_paths(base_dir, paths): the files of the checkout that the paths
\* name, a directory standing for every file under it
_expand_paths(base_dir, paths) ==
    {f \in Paths : base_dir[f] # None /\ \E p \in paths : f = p \/ f \in FilesUnder(p)}

\* _excluded_set(base_dir, excluded_paths)
_excluded_set(base_dir, excluded) ==
    _expand_paths(base_dir, excluded) \cup {TEMPLATE_FILE, HISTORY_FILE}

\* the dict rel -> text that sync collects from a checkout (lines 421-426 for
\* upstream, 439-442 for base)
CollectFiles(base_dir, paths, excludes) ==
    [f \in _expand_paths(base_dir, paths) \ excludes |-> base_dir[f]]

\* git checkout <sha> in _clone_at_sha succeeds when sha names a commit
CanCheckout(sha) == Len(sha) = 1 /\ sha[1] \in Commits

\* ------------------------------------------------------------------------
\* Diff-only (dry-run)
\* ------------------------------------------------------------------------

\* _diff_file: None when difflib.unified_diff yields no line, that is when
\* the local lines (no line without a local file) are the upstream lines
_diff_file(upstream_content, local_content) ==
    LET local_lines == IF local_content = None THEN << >> ELSE local_content
    IN  IF local_lines = upstream_content THEN None
        ELSE << "--- a", "+++ b" >> \o local_lines \o upstream_content

\* ------------------------------------------------------------------------
\* History file
\* ------------------------------------------------------------------------

HistoryHeader ==
    << "# Rhiza Template History",
       "# This file lists all files managed by the Rhiza template.",
       "# Template repository: jebel-quant/rhiza",
       "# Template branch: main",
       "#",
       "# Files under template control:" >>

\* a history writer that also removes the template files the new record does
\* not list
_write_history_file_pruning(target, materialized_files) ==
    [p \in DOMAIN target |->
        IF p = HISTORY_FILE THEN HistoryHeader \o Sorted(materialized_files)
        ELSE IF p = OLD_HISTORY_FILE THEN None
        ELSE IF p \in {FileA, FileB, FileOld} \ Range(materialized_files) THEN None
        ELSE target[p]]

\* _write_history_file(target, materialized_files): the target with the new
\* history written and the history file of the old location removed
_write_history_file(target, materialized_files) ==
    [target EXCEPT ![HISTORY_FILE] = HistoryHeader \o Sorted(materialized_files),
                   ![OLD_HISTORY_FILE] = None]

\* the I/O calls _write_history_file makes on the target
HistoryIO(target) ==
    << <<"write", HISTORY_FILE>> >>
    \o (IF target[OLD_HISTORY_FILE] # None THEN << <<"unlink", OLD_HISTORY_FILE>> >>
        ELSE << >>)

\* ------------------------------------------------------------------------
\* Entry of a command: target branch and template configuration
\* ------------------------------------------------------------------------

\* the two lines of a template configuration that validation looks for
RepoLine == "template-repository: jebel-quant/rhiza"

IncludeLine == "include: [...]"

\* validate(target): the template file exists, names a repository and has an
\* include list
validate(target) ==
    /\ target[TEMPLATE_FILE] # None
    /\ RepoLine \in Range(target[TEMPLATE_FILE])
    /\ IncludeLine \in Range(target[TEMPLATE_FILE])

\* _handle_target_branch: the branch the target is on afterwards. Without
\* --target-branch nothing happens; otherwise the branch is checked out,
\* created from the current HEAD when it does not exist. A branch that exists
\* is one an earlier run created and points to the same commit, so the files
\* of the working tree stay what they are.
_handle_target_branch(head, target_branch) ==
    IF target_branch = NoBranch THEN head ELSE target_branch

\* run i may start: it is idle and every earlier run has ended
MayStart(i) ==
    /\ runs[i].pc = "idle"
    /\ \A j \in RunIds : j < i => runs[j].pc \in {"done", "failed"}

\* run i may start on command line c: the scenario holds c
MayRun(i, c) == MayStart(i) /\ c \in offered

\* the record of run i when it starts: it notes the target as it finds it
StartedRun(i) == [runs[i] EXCEPT !.pre = fs, !.pre_head = git_head]

\* a command line that lets any strategy value through to sync
SyncAcceptedAlways(c) == TRUE

\* the command line of a sync whose --strategy value is none of the three
\* choices is rejected when it is parsed: sync is not called
SyncAccepted(c) == c.strategy \in Strategies

\* rhiza sync --strategy <other>: usage error, non-zero exit code
SyncRejected(i, c) ==
    /\ MayRun(i, c)
    /\ c.cmd = "sync"
    /\ ~SyncAccepted(c)
    /\ runs' = [runs EXCEPT ![i] =
           [StartedRun(i) EXCEPT !.pc = "failed", !.outcome = "usage error"]]
    /\ UNCHANGED << fs, tree, upstream_head, include_paths, excluded_paths, git_head, offered, resolver >>

\* a command that is passed on to its function: sync or materialize
Called(c) == IF c.cmd = "sync" THEN SyncAccepted(c) ELSE c.cmd = "materialize"

\* _handle_target_branch, lines 92-96: git checkout fails, sys.exit(1)
BranchFails(i, c) ==
    /\ MayRun(i, c)
    /\ Called(c)
    /\ c.target_branch # NoBranch
    /\ runs' = [runs EXCEPT ![i] =
           [StartedRun(i) EXCEPT !.pc = "failed", !.outcome = "branch failed"]]
    /\ UNCHANGED << fs, tree, upstream_head, include_paths, excluded_paths, git_head, offered, resolver >>

\* sync, lines 386-389 and materialize, lines 680-683: the target branch is
\* handled, then _validate_and_load_template finds the configuration invalid
\* and leaves with sys.exit(1)
ConfigInvalid(i, c) ==
    /\ MayRun(i, c)
    /\ Called(c)
    /\ ~validate(fs)
    /\ git_head' = _handle_target_branch(git_head, c.target_branch)
    /\ runs' = [runs EXCEPT ![i] =
           [StartedRun(i) EXCEPT !.pc = "failed", !.outcome = "config invalid"]]
    /\ UNCHANGED << fs, tree, upstream_head, include_paths, excluded_paths, offered, resolver >>

\* ------------------------------------------------------------------------
\* sync
\* ------------------------------------------------------------------------

\* a sync that swallows the error of the clone and goes on with the empty
\* checkout: it writes the history of no file before it ends
SyncCloneFailsSwallowed(i, c) ==
    /\ MayRun(i, c)
    /\ c.cmd = "sync" /\ SyncAccepted(c)
    /\ validate(fs)
    /\ git_head' = _handle_target_branch(git_head, c.target_branch)
    /\ fs' = _write_history_file(fs, << >>)
    /\ runs' = [runs EXCEPT ![i] =
           [StartedRun(i) EXCEPT !.pc = "failed", !.outcome = "clone failed",
                     !.io = << <<"clone", "upstream">> >>]]
    /\ UNCHANGED << tree, upstream_head, include_paths, excluded_paths, offered, resolver >>

\* sync, lines 386-409: the target branch is handled and the configuration
\* loaded, then the clone of the upstream branch fails; the exception leaves
\* sync before the strategy plays any part
SyncCloneFails(i, c) ==
    /\ MayRun(i, c)
    /\ c.cmd = "sync" /\ SyncAccepted(c)
    /\ validate(fs)
    /\ git_head' = _handle_target_branch(git_head, c.target_branch)
    /\ runs' = [runs EXCEPT ![i] =
           [StartedRun(i) EXCEPT !.pc = "failed", !.outcome = "clone failed",
                     !.io = << <<"clone", "upstream">> >>]]
    /\ UNCHANGED << fs, tree, upstream_head, include_paths, excluded_paths, offered, resolver >>

\* a sync that never takes the early exit
NeverUpToDate(base_sha, upstream_sha) == FALSE

\* sync, line 414: the stored lock is the upstream HEAD
UpToDate(base_sha, upstream_sha) == base_sha = upstream_sha

\* sync, lines 386-494: handle the target branch, load the configuration,
\* clone upstream, read the lock, leave early when the lock is the upstream
\* HEAD, collect the upstream files and the base files, and enter the loop of
\* the strategy
SyncBegin(i, c) ==
    /\ c.cmd = "sync" /\ SyncAccepted(c)
    /\ validate(fs)
    /\ git_head' = _handle_target_branch(git_head, c.target_branch)
    /\ LET strategy == c.strategy
           upstream_dir == tree[upstream_head]
           upstream_sha == _get_head_sha
           base_sha == _read_lock(fs)
           excludes == _excluded_set(upstream_dir, excluded_paths)
           upstream_files == CollectFiles(upstream_dir, include_paths, excludes)
           wants_base == base_sha # None /\ base_sha # << >>
           started == [StartedRun(i) EXCEPT
                          !.strategy = strategy,
                          !.upstream_sha = upstream_sha,
                          !.base_sha = base_sha,
                          !.io = << <<"clone", "upstream">> >>]
       IN  IF UpToDate(base_sha, upstream_sha)
           THEN runs' = [runs EXCEPT ![i] =
                    [started EXCEPT !.pc = "done", !.outcome = "up to date"]]
           ELSE IF wants_base /\ ~CanCheckout(base_sha)
           THEN runs' = [runs EXCEPT ![i] =
                    [started EXCEPT !.pc = "failed", !.outcome = "exit 1",
                                    !.upstream_files = upstream_files,
                                    !.io = @ \o << <<"clone", "base">> >>]]
           ELSE runs' = [runs EXCEPT ![i] =
                    [started EXCEPT
                        !.pc = strategy,
                        !.upstream_files = upstream_files,
                        !.base_files =
                            IF wants_base
                            THEN CollectFiles(tree[base_sha[1]], include_paths, excludes)
                            ELSE NoFiles,
                        !.io = IF wants_base THEN @ \o << <<"clone", "base">> >> ELSE @,
                        !.todo = SeqOfSet(DOMAIN upstream_files, 1)]]
    /\ UNCHANGED << fs, tree, upstream_head, include_paths, excluded_paths, offered, resolver >>

\* sync started by run i on command line c, once every earlier run has ended
SyncStart(i, c) == MayRun(i, c) /\ SyncBegin(i, c)

\* a dry run that records the commit it compared against in the lock file
SyncDiffLocking(i) ==
    /\ runs[i].pc = "diff"
    /\ fs' = [fs EXCEPT ![LOCK_FILE] = runs[i].upstream_sha]
    /\ runs' = [runs EXCEPT ![i] =
           [@ EXCEPT !.pc = "done", !.outcome = "diff", !.todo = << >>,
                     !.io = Append(@, <<"write", LOCK_FILE>>)]]
    /\ UNCHANGED << tree, upstream_head, include_paths, excluded_paths, git_head, offered, resolver >>

\* sync, lines 454-468: strategy diff, the whole loop and its report
SyncDiff(i) ==
    /\ runs[i].pc = "diff"
    /\ LET r == runs[i]
           differing == {p \in DOMAIN r.upstream_files :
                            _diff_file(r.upstream_files[p], fs[p]) # None}
       IN  runs' = [runs EXCEPT ![i] =
               [r EXCEPT !.pc = "done", !.outcome = "diff", !.todo = << >>,
                         !.changes = Cardinality(differing)]]
    /\ UNCHANGED << fs, tree, upstream_head, include_paths, excluded_paths, git_head, offered, resolver >>

\* an overwrite loop that copies only the files the target lacks
SyncOverwriteMissingFile(i) ==
    /\ runs[i].pc = "overwrite"
    /\ runs[i].todo # << >>
    /\ LET r == runs[i]
           rel_path == Head(r.todo)
       IN  /\ fs' = IF fs[rel_path] = None
                    THEN [fs EXCEPT ![rel_path] = r.upstream_files[rel_path]]
                    ELSE fs
           /\ runs' = [runs EXCEPT ![i] =
                  [r EXCEPT !.todo = Tail(r.todo),
                            !.materialized = Append(r.materialized, rel_path)]]
    /\ UNCHANGED << tree, upstream_head, include_paths, excluded_paths, git_head, offered, resolver >>

\* sync, lines 476-481: strategy overwrite, one turn of the loop
SyncOverwriteFile(i) ==
    /\ runs[i].pc = "overwrite"
    /\ runs[i].todo # << >>
    /\ LET r == runs[i]
           rel_path == Head(r.todo)
       IN  /\ fs' = [fs EXCEPT ![rel_path] = r.upstream_files[rel_path]]
           /\ runs' = [runs EXCEPT ![i] =
                  [r EXCEPT !.todo = Tail(r.todo),
                            !.materialized = Append(r.materialized, rel_path),
                            !.io = Append(r.io, <<"write", rel_path>>)]]
    /\ UNCHANGED << tree, upstream_head, include_paths, excluded_paths, git_head, offered, resolver >>

\* a merge loop that takes the upstream file when upstream has not changed
\* since the base, instead of leaving the local file alone
MergeTurnTakingUpstream(r, target, rel_path) ==
    IF target[rel_path] # None /\ target[rel_path] = r.upstream_files[rel_path]
    THEN [write |-> FALSE, merged |-> target[rel_path], had_conflicts |-> FALSE,
          log |-> "SKIP"]
    ELSE [write |-> TRUE, merged |-> r.upstream_files[rel_path],
          had_conflicts |-> FALSE, log |-> "MERGE"]

\* a merge loop that writes the local file back when upstream has not changed
\* since the base
MergeTurnRewritingKept(r, target, rel_path) ==
    IF target[rel_path] # None /\ target[rel_path] = r.upstream_files[rel_path]
    THEN [write |-> FALSE, merged |-> target[rel_path], had_conflicts |-> FALSE,
          log |-> "SKIP"]
    ELSE IF rel_path \in DOMAIN r.base_files
            /\ r.base_files[rel_path] = r.upstream_files[rel_path]
    THEN [write |-> TRUE, merged |-> target[rel_path], had_conflicts |-> FALSE,
          log |-> "KEEP"]
    ELSE [write |-> TRUE,
          merged |-> _merge_file(IF rel_path \in DOMAIN r.base_files
                                 THEN r.base_files[rel_path] ELSE None,
                                 r.upstream_files[rel_path], target[rel_path],
                                 rel_path)[1],
          had_conflicts |-> _merge_file(IF rel_path \in DOMAIN r.base_files
                                        THEN r.base_files[rel_path] ELSE None,
                                        r.upstream_files[rel_path],
                                        target[rel_path], rel_path)[2],
          log |-> "MERGE"]

\* what one turn of the merge loop (lines 494-528) does with rel_path:
\* write tells whether the file is written, and with which content
MergeTurn(r, target, rel_path) ==
    LET upstream_content == r.upstream_files[rel_path]
        local_content == target[rel_path]
        base_content == IF rel_path \in DOMAIN r.base_files
                        THEN r.base_files[rel_path] ELSE None
    IN  IF local_content # None /\ local_content = upstream_content
        THEN [write |-> FALSE, merged |-> local_content, had_conflicts |-> FALSE,
              log |-> "SKIP"]
        ELSE IF base_content # None /\ base_content = upstream_content
        THEN [write |-> FALSE, merged |-> local_content, had_conflicts |-> FALSE,
              log |-> "KEEP"]
        ELSE LET m == _merge_file(base_content, upstream_content, local_content, rel_path)
             IN  [write |-> TRUE, merged |-> m[1], had_conflicts |-> m[2],
                  log |-> IF m[2] THEN "CONFLICT" ELSE "MERGE"]

\* sync, lines 494-528: strategy merge, one turn of the loop
SyncMergeFile(i) ==
    /\ runs[i].pc = "merge"
    /\ runs[i].todo # << >>
    /\ LET r == runs[i]
           rel_path == Head(r.todo)
           t == MergeTurn(r, fs, rel_path)
       IN  /\ fs' = IF t.write THEN [fs EXCEPT ![rel_path] = t.merged] ELSE fs
           /\ runs' = [runs EXCEPT ![i] =
                  [r EXCEPT !.todo = Tail(r.todo),
                            !.materialized = Append(r.materialized, rel_path),
                            !.conflicts = IF t.had_conflicts
                                          THEN Append(r.conflicts, rel_path) ELSE @,
                            !.io = IF t.write THEN Append(r.io, <<"write", rel_path>>)
                                   ELSE @]]
    /\ UNCHANGED << tree, upstream_head, include_paths, excluded_paths, git_head, offered, resolver >>

\* sync, lines 483-484 (overwrite) and 530-531 (merge): the loop is over, the
\* history file is written
SyncWriteHistory(i) ==
    /\ runs[i].pc \in {"overwrite", "merge"}
    /\ runs[i].todo = << >>
    /\ fs' = _write_history_file(fs, runs[i].materialized)
    /\ runs' = [runs EXCEPT ![i] =
           [@ EXCEPT !.pc = "lock", !.io = @ \o HistoryIO(fs)]]
    /\ UNCHANGED << tree, upstream_head, include_paths, excluded_paths, git_head, offered, resolver >>

\* sync, lines 485-487 (overwrite) and 532-547 (merge): the lock is written
\* and the run reports its conflicts
SyncWriteLock(i) ==
    /\ runs[i].pc = "lock"
    /\ fs' = _write_lock(fs, runs[i].upstream_sha)
    /\ runs' = [runs EXCEPT ![i] =
           [@ EXCEPT !.pc = "done", !.outcome = runs[i].strategy,
                     !.report = runs[i].conflicts,
                     !.io = Append(@, <<"write", LOCK_FILE>>)]]
    /\ UNCHANGED << tree, upstream_head, include_paths, excluded_paths, git_head, offered, resolver >>

\* the file the loop of run i is about to write, if it is about to write one
WritesNext(i) ==
    /\ runs[i].pc \in {"overwrite", "merge"}
    /\ runs[i].todo # << >>
    /\ (runs[i].pc = "merge" => MergeTurn(runs[i], fs, Head(runs[i].todo)).write)

\* sync, lines 478 (overwrite) and 520 (merge): write_text raises OSError
\* (permissions, disk full); nothing catches it, the finally clause removes
\* the clones and the exception ends the run. The file stays as it was.
SyncWriteFails(i) ==
    /\ WritesNext(i)
    /\ runs' = [runs EXCEPT ![i] =
           [@ EXCEPT !.pc = "failed", !.outcome = "write failed"]]
    /\ UNCHANGED << fs, tree, upstream_head, include_paths, excluded_paths, git_head, offered, resolver >>

\* sync, lines 473-532: the process is interrupted (KeyboardInterrupt, kill)
\* between two steps of the loop, before the history or before the lock
SyncInterrupted(i) ==
    /\ runs[i].pc \in {"overwrite", "merge", "lock"}
    /\ runs' = [runs EXCEPT ![i] =
           [@ EXCEPT !.pc = "failed", !.outcome = "interrupted"]]
    /\ UNCHANGED << fs, tree, upstream_head, include_paths, excluded_paths, git_head, offered, resolver >>

\* the first characters of a commit id
PartialId == "c"

\* _write_lock, line 74: what Path.write_text leaves of the lock file when it
\* is interrupted: open(mode "w") has truncated the file, and none, a part
\* or all but the newline of the text has reached it
TornLocks(sha) == { << >>, << PartialId >>, sha }

\* sync, lines 487 and 532: the process is interrupted inside _write_lock
SyncWriteLockInterrupted(i) ==
    /\ runs[i].pc = "lock"
    /\ \E torn \in TornLocks(runs[i].upstream_sha) :
          fs' = [fs EXCEPT ![LOCK_FILE] = torn]
    /\ runs' = [runs EXCEPT ![i] =
           [@ EXCEPT !.pc = "failed", !.outcome = "lock write interrupted",
                     !.io = Append(@, <<"write", LOCK_FILE>>)]]
    /\ UNCHANGED << tree, upstream_head, include_paths, excluded_paths, git_head, offered, resolver >>

\* ------------------------------------------------------------------------
\* materialize
\* ------------------------------------------------------------------------

RECURSIVE Repeat(_, _)
\* [x] * n
Repeat(x, n) == IF n = 0 THEN << >> ELSE << x >> \o Repeat(x, n - 1)

RECURSIVE ExpandFrom(_, _, _)
\* the files of the checkout from place k of PathOrder on, each once for every
\* path of the list that names it or a directory above it
ExpandFrom(base_dir, paths, k) ==
    IF k > Len(PathOrder) THEN << >>
    ELSE (IF base_dir[PathOrder[k]] = None THEN << >>
          ELSE Repeat(PathOrder[k],
                      Cardinality({p \in paths : PathOrder[k] = p
                                                 \/ PathOrder[k] \in FilesUnder(p)})))
         \o ExpandFrom(base_dir, paths, k + 1)

\* __expand_paths(base_dir, paths) of materialize: a list, a file path goes
\* into it for the path that names it and again for a directory that holds
\* it. The list is given in sorted order: its order plays no part later.
__expand_paths(base_dir, paths) == ExpandFrom(base_dir, paths, 1)

\* _copy_files_to_target, lines 476-489: the files of the included paths
\* that no excluded path covers
files_to_copy(tmp_dir) ==
    SelectSeq(__expand_paths(tmp_dir, include_paths),
              LAMBDA f : f \notin _expand_paths(tmp_dir, excluded_paths))

\* _copy_files_to_target, lines 495-513: the target after the copy loop; a
\* file the target has is left alone without --force
_copy_files_to_target(tmp_dir, target, files, force) ==
    [p \in Paths |->
        IF p \in Range(files) /\ (target[p] = None \/ force) THEN tmp_dir[p]
        ELSE target[p]]

\* the files the copy loop wrote
Copied(target, files, force) ==
    {p \in Range(files) : target[p] = None \/ force}

\* _clean_orphaned_files, lines 541-561: the paths of the previous history,
\* read from the new location or else the old one; comment lines are the
\* lines of the header
previously_tracked_files(target) ==
    LET history == IF target[HISTORY_FILE] # None THEN target[HISTORY_FILE]
                   ELSE IF target[OLD_HISTORY_FILE] # None
                   THEN target[OLD_HISTORY_FILE]
                   ELSE << >>
    IN  {line \in Range(history) : line \notin Range(HistoryHeader)}

\* _clean_orphaned_files, lines 565-566
orphaned_files(target, materialized_files) ==
    previously_tracked_files(target) \ Range(materialized_files)

\* _clean_orphaned_files, lines 568-580: every orphan that exists is unlinked
_clean_orphaned_files(target, orphans) ==
    [p \in Paths |-> IF p \in orphans THEN None ELSE target[p]]

\* the I/O log of an operation on each path of a sorted list
LogOf(op, paths) == [k \in 1..Len(paths) |-> << op, paths[k] >>]

\* materialize, lines 716-719: orphan cleanup and history of a copy that left
\* the target as copied
MaterializeEnd(i, c, materialized_files, copied, orphans) ==
    LET cleaned == _clean_orphaned_files(copied, orphans)
    IN  /\ fs' = _write_history_file(cleaned, materialized_files)
        /\ runs' = [runs EXCEPT ![i] =
               [StartedRun(i) EXCEPT
                   !.pc = "done", !.outcome = "materialize",
                   !.materialized = materialized_files,
                   !.io = << <<"clone", "upstream">> >>
                          \o LogOf("write",
                                   SeqOfSet(Copied(fs, materialized_files, c.force), 1))
                          \o LogOf("unlink",
                                   SeqOfSet({p \in orphans : copied[p] # None}, 1))
                          \o HistoryIO(copied)]]

\* materialize, lines 711-716: the copy into the target of a clone
MaterializeCopy(i, c, tmp_dir, materialized_files) ==
    MaterializeEnd(i, c, materialized_files,
                   _copy_files_to_target(tmp_dir, fs, materialized_files, c.force),
                   orphaned_files(
                       _copy_files_to_target(tmp_dir, fs, materialized_files, c.force),
                       materialized_files))

\* materialize, lines 651-733: handle the target branch, load the
\* configuration, clone the template, copy its files, remove the orphans and
\* write the history
Materialize(i, c) ==
    /\ MayRun(i, c)
    /\ c.cmd = "materialize"
    /\ validate(fs)
    /\ git_head' = _handle_target_branch(git_head, c.target_branch)
    /\ MaterializeCopy(i, c, tree[upstream_head], files_to_copy(tree[upstream_head]))
    /\ UNCHANGED << tree, upstream_head, include_paths, excluded_paths, offered, resolver >>

\* ------------------------------------------------------------------------
\* Initial states: a target repository and a template repository
\* ------------------------------------------------------------------------

\* the lines a text of the varied file is made of
LineNames == << "a", "b", "c" >>

LineSet == Range(LineNames)

LineRank(l) == CHOOSE k \in 1..Len(LineNames) : LineNames[k] = l

\* the texts of at most n lines
Texts(n) == UNION {[1..k -> LineSet] : k \in 0..n}

\* lines are interchangeable: of the texts that differ only by renaming the
\* lines, the one that uses the line names in order of first use stands for all
InOrderOfFirstUse(s) ==
    \A k \in 1..Len(s) :
        \A l \in LineSet :
            LineRank(l) < LineRank(s[k]) => \E j \in 1..(k - 1) : s[j] = l

Lines(content) == IF content = None THEN << >> ELSE content

\* upstream, base and local content of the varied file FileA
CasesA ==
    {c \in [up : Texts(MaxLines) \cup {None},
            base : Texts(MaxLines) \cup {None},
            loc : Texts(MaxLines) \cup {None}] :
        InOrderOfFirstUse(Lines(c.up) \o Lines(c.base) \o Lines(c.loc))}

\* the rest of a scenario: upstream, base and local content of the second
\* file FileB, whether the template repository holds rhiza files of its own,
\* the history record the target starts with, and the exclude list
Envs ==
    { [up |-> None, base |-> None, loc |-> None,
       own |-> FALSE, hist |-> "none", excluded |-> {}],
      [up |-> <<"b">>, base |-> None, loc |-> None,
       own |-> TRUE, hist |-> "new", excluded |-> {}],
      [up |-> <<"b">>, base |-> <<"a">>, loc |-> <<"a">>,
       own |-> FALSE, hist |-> "old", excluded |-> {FileB}],
      [up |-> <<"b">>, base |-> <<"a">>, loc |-> <<"c">>,
       own |-> FALSE, hist |-> "new", excluded |-> {}] }

\* a template of one file and a target without history
Bare ==
    [up |-> None, base |-> None, loc |-> None,
     own |-> FALSE, hist |-> "none", excluded |-> {}]

\* a history record that lists the template configuration as managed: a
\* materialize wrote it when the template still held a configuration
ConfigListed ==
    [up |-> None, base |-> None, loc |-> None,
     own |-> FALSE, hist |-> "config", excluded |-> {}]

\* the text of a valid template configuration
ConfigText == << RepoLine, IncludeLine >>

\* the lock file the template repository may hold for itself
UpstreamOwnLock == WithNewline(<< "u0" >>)

\* the paths the previous history record lists
HistoryEntries(hist) ==
    IF hist = "config" THEN << TEMPLATE_FILE, FileA >> ELSE << FileA, FileOld >>

\* the usual include list, and one that names a file under a directory it
\* names too
Include == {FileA, FileB, RhizaDir}

IncludeTwice == {FileA, FileB, RhizaDir, LOCK_FILE}

\* the lock files sync writes: a commit id and a newline
WrittenLocks == {WithNewline(<< c >>) : c \in Commits \cup {GoneCommit}}

\* lock files edited by hand
EditedLocks == { << >>, << " ", "c1", "\n", "\n" >> }

\* configurations that validation refuses: no repository, no include list
BadConfigs == { << IncludeLine >>, << RepoLine >> }

\* rhiza sync --strategy <s>
PlainSyncs == {Command("sync", s, FALSE, NoBranch) : s \in Strategies}

\* the command lines of the second family of scenarios
AllCommands ==
    PlainSyncs \cup
    { Command("sync", "merge", FALSE, WorkBranch),
      Command("sync", "invalid", FALSE, NoBranch),
      Command("materialize", "", TRUE, NoBranch),
      Command("materialize", "", FALSE, NoBranch) }

\* a few contents of FileA: unchanged, changed on both sides, and a file
\* that is new upstream and empty
FewCasesA ==
    { [up |-> <<"a">>, base |-> <<"a">>, loc |-> <<"a">>],
      [up |-> <<"a", "b">>, base |-> <<"a">>, loc |-> <<"c", "a">>],
      [up |-> << >>, base |-> None, loc |-> None] }

\* The scenarios. The first family varies the contents of the files under
\* plain syncs of a sound target. The others run every command line: on a
\* target whose configuration is refused or missing, on a target whose lock
\* was edited by hand, and on targets that vary in their history record and
\* include list.
Scenarios ==
    {[a |-> a, e |-> e, lock |-> lock, config |-> ConfigText,
      include |-> Include, offered |-> PlainSyncs] :
        a \in CasesA, e \in Envs, lock \in WrittenLocks \cup {None}}
    \cup
    {[a |-> a, e |-> Bare, lock |-> lock, config |-> config,
      include |-> Include, offered |-> AllCommands] :
        a \in FewCasesA, lock \in {None, WithNewline(<< "c1" >>)},
        config \in BadConfigs \cup {None}}
    \cup
    {[a |-> a, e |-> Bare, lock |-> lock, config |-> ConfigText,
      include |-> Include, offered |-> AllCommands] :
        a \in FewCasesA, lock \in EditedLocks \cup {None}}
    \cup
    {[a |-> a, e |-> e, lock |-> lock, config |-> ConfigText,
      include |-> include, offered |-> AllCommands] :
        a \in FewCasesA, e \in Envs \cup {ConfigListed},
        lock \in {None, WithNewline(<< "c1" >>)},
        include \in {Include, IncludeTwice}}

\* the template repository of a scenario
TreeOf(a, e) ==
    [c \in Commits |->
        [p \in Paths |->
            CASE p = FileA -> IF c = "c2" THEN a.up ELSE a.base
              [] p = FileB -> IF c = "c2" THEN e.up ELSE e.base
              [] p = LOCK_FILE -> IF e.own THEN UpstreamOwnLock ELSE None
              [] p = TEMPLATE_FILE -> IF e.own THEN ConfigText ELSE None
              [] p = HISTORY_FILE -> IF e.own THEN HistoryHeader ELSE None
              [] OTHER -> None]]

\* the target repository of a scenario
TargetOf(sc) ==
    [p \in Paths |->
        CASE p = FileA -> sc.a.loc
          [] p = FileB -> sc.e.loc
          [] p = LOCK_FILE -> sc.lock
          [] p = TEMPLATE_FILE -> sc.config
          [] p = HISTORY_FILE ->
                IF sc.e.hist \in {"new", "config"}
                THEN HistoryHeader \o HistoryEntries(sc.e.hist)
                ELSE None
          [] p = OLD_HISTORY_FILE ->
                IF sc.e.hist = "old" THEN HistoryHeader \o HistoryEntries(sc.e.hist)
                ELSE None
          [] p = FileOld -> IF sc.e.hist \in {"new", "old"} THEN << "a" >> ELSE None]

Init ==
    /\ upstream_head = "c2"
    /\ git_head = MainBranch
    /\ \E sc \in Scenarios :
         /\ include_paths = sc.include
         /\ excluded_paths = sc.e.excluded
         /\ offered = sc.offered
         /\ tree = TreeOf(sc.a, sc.e)
         /\ fs = TargetOf(sc)
    /\ runs = [i \in RunIds |-> IdleRun]
    /\ resolver = IdleResolver

Next ==
    \E i \in RunIds :
        \/ \E c \in AllCommands :
              \/ SyncRejected(i, c)
              \/ BranchFails(i, c)
              \/ ConfigInvalid(i, c)
              \/ SyncCloneFails(i, c)
              \/ SyncStart(i, c)
              \/ Materialize(i, c)
        \/ SyncDiff(i)
        \/ SyncOverwriteFile(i)
        \/ SyncMergeFile(i)
        \/ SyncWriteHistory(i)
        \/ SyncWriteLock(i)

Spec == Init /\ [][Next]_vars

\* ------------------------------------------------------------------------
\* Syncs under faults: a write that fails, an interruption
\* ------------------------------------------------------------------------

\* the template repository holds rhiza files of its own and a second file
OwnFiles ==
    [up |-> <<"b">>, base |-> None, loc |-> None,
     own |-> TRUE, hist |-> "new", excluded |-> {}]

\* rhiza sync with a strategy that writes
WritingSyncs ==
    {Command("sync", s, FALSE, NoBranch) : s \in {"merge", "overwrite"}}

\* the scenarios of the syncs under faults: every content of the varied file
\* on a first sync and on a later one, and a template with files of its own
FaultScenarios ==
    {[a |-> a, e |-> Bare, lock |-> lock, config |-> ConfigText,
      include |-> Include, offered |-> WritingSyncs] :
        a \in CasesA, lock \in {None, WithNewline(<< "c1" >>)}}
    \cup
    {[a |-> a, e |-> OwnFiles, lock |-> lock, config |-> ConfigText,
      include |-> Include, offered |-> WritingSyncs] :
        a \in FewCasesA, lock \in {None, WithNewline(<< "c1" >>)}}

InitFaults ==
    /\ upstream_head = "c2"
    /\ git_head = MainBranch
    /\ \E sc \in FaultScenarios :
         /\ include_paths = sc.include
         /\ excluded_paths = sc.e.excluded
         /\ offered = sc.offered
         /\ tree = TreeOf(sc.a, sc.e)
         /\ fs = TargetOf(sc)
    /\ runs = [i \in RunIds |-> IdleRun]
    /\ resolver = IdleResolver

NextFaults ==
    \E i \in RunIds :
        \/ \E c \in WritingSyncs :
              \/ SyncCloneFails(i, c)
              \/ SyncStart(i, c)
        \/ SyncOverwriteFile(i)
        \/ SyncMergeFile(i)
        \/ SyncWriteHistory(i)
        \/ SyncWriteLock(i)
        \/ SyncWriteFails(i)
        \/ SyncInterrupted(i)
        \/ SyncWriteLockInterrupted(i)

SpecFaults == InitFaults /\ [][NextFaults]_vars

\* ------------------------------------------------------------------------
\* Two syncs on one target at the same time
\* ------------------------------------------------------------------------

\* a sync that holds a lock on the target: it starts once every earlier run
\* has released it
MayStartExclusive(i) ==
    /\ runs[i].pc = "idle"
    /\ \A j \in RunIds : j < i => runs[j].pc \in {"done", "failed"}

\* run i may start while earlier runs are still at work: sync (lines 386-416)
\* opens, checks and takes no lock on the target before it reads or writes
MayStartRacing(i) ==
    /\ runs[i].pc = "idle"
    /\ \A j \in RunIds : j < i => runs[j].pc # "idle"

\* sync started by run i on command line c, whatever the other runs are doing
SyncStartRacing(i, c) ==
    /\ MayStartRacing(i)
    /\ c \in offered
    /\ SyncBegin(i, c)

\* the template repository receives a new commit between two clones
UpstreamAdvances ==
    /\ upstream_head = "c1"
    /\ upstream_head' = "c2"
    /\ UNCHANGED << fs, tree, include_paths, excluded_paths, git_head, offered, runs, resolver >>

\* FileB is new in the second commit of the template
NewFileB ==
    [up |-> <<"b">>, base |-> None, loc |-> None, own |-> FALSE, hist |-> "none",
     excluded |-> {}]

\* targets without a lock whose FileA is missing or as the first commit has
\* it, and templates whose two commits both hold FileA, with different content
RaceScenarios ==
    {[a |-> a, e |-> NewFileB, lock |-> None, config |-> ConfigText,
      include |-> Include, offered |-> WritingSyncs] :
        a \in {c \in CasesA : /\ c.up # None /\ c.base # None /\ c.up # c.base
                            /\ c.loc \in {None, c.base}}}

InitRace ==
    /\ upstream_head = "c1"
    /\ git_head = MainBranch
    /\ \E sc \in RaceScenarios :
         /\ include_paths = sc.include
         /\ excluded_paths = sc.e.excluded
         /\ offered = sc.offered
         /\ tree = TreeOf(sc.a, sc.e)
         /\ fs = TargetOf(sc)
    /\ runs = [i \in RunIds |-> IdleRun]
    /\ resolver = IdleResolver

NextRace ==
    \/ UpstreamAdvances
    \/ \E i \in RunIds :
          \/ \E c \in WritingSyncs : SyncStartRacing(i, c)
          \/ SyncOverwriteFile(i)
          \/ SyncMergeFile(i)
          \/ SyncWriteHistory(i)
          \/ SyncWriteLock(i)

SpecRace == InitRace /\ [][NextRace]_vars

\* ------------------------------------------------------------------------
\* Bundle dependency resolution
\* ------------------------------------------------------------------------

\* the longest depends-on list of a bundle
MaxDeps == 2

\* the longest list of requested bundle names
MaxRequested == 2

\* the bundles of bundles.yml
BundleNames == {"core", "tests", "docs"}

\* a name bundles.yml does not define
Ghost == "ghost"

\* the lists of at most n names of S
NameLists(S, n) == UNION {[1..k -> S] : k \in 0..n}

\* self.bundles as the resolver reads it: bundle name -> its depends_on list
BundleGraphs ==
    [BundleNames -> NameLists(BundleNames \cup {Ghost}, MaxDeps)]

\* the state of the traversal: resolved, visiting, visited, and the error
\* raised ("" while none is)
NoVisit == [resolved |-> << >>, visiting |-> {}, visited |-> {}, error |-> ""]

\* a traversal that lists a bundle without marking it visited
leave_unmarked(bundle_name, st) ==
    IF st.error # "" THEN st
    ELSE [st EXCEPT !.visiting = @ \ {bundle_name},
                    !.resolved = Append(@, bundle_name)]

\* visit, lines 185-187: the dependencies are done, the bundle is listed
leave(bundle_name, st) ==
    IF st.error # "" THEN st
    ELSE [st EXCEPT !.visiting = @ \ {bundle_name},
                    !.visited = @ \cup {bundle_name},
                    !.resolved = Append(@, bundle_name)]

RECURSIVE visit(_, _, _)
RECURSIVE visit_deps(_, _, _, _)
\* visit, lines 180-183: the loop over bundle.depends_on from place k on; a
\* raised error ends the traversal
visit_deps(bundles, bundle_name, k, st) ==
    IF st.error # "" \/ k > Len(bundles[bundle_name]) THEN st
    ELSE IF bundles[bundle_name][k] \notin DOMAIN bundles
    THEN [st EXCEPT !.error = "unknown dependency"]
    ELSE visit_deps(bundles, bundle_name, k + 1,
                    visit(bundles, bundles[bundle_name][k], st))

\* visit(bundle_name), lines 171-187
visit(bundles, bundle_name, st) ==
    IF st.error # "" THEN st
    ELSE IF bundle_name \in st.visited THEN st
    ELSE IF bundle_name \in st.visiting THEN [st EXCEPT !.error = "circular"]
    ELSE leave(bundle_name,
               visit_deps(bundles, bundle_name, 1,
                          [st EXCEPT !.visiting = @ \cup {bundle_name}]))

RECURSIVE visit_all(_, _, _, _)
\* lines 189-190: visit every requested name in turn, from place k on
visit_all(bundles, bundle_names, k, st) ==
    IF st.error # "" \/ k > Len(bundle_names) THEN st
    ELSE visit_all(bundles, bundle_names, k + 1, visit(bundles, bundle_names[k], st))

\* lines 190-192: the list returned, unless the traversal raised
ResultOf(st) == IF st.error # "" THEN ValueError ELSE Returned(st.resolved)

\* RhizaBundles.resolve_dependencies(bundle_names), lines 151-192
resolve_dependencies(bundles, bundle_names) ==
    IF \E k \in 1..Len(bundle_names) : bundle_names[k] \notin DOMAIN bundles
    THEN ValueError
    ELSE ResultOf(visit_all(bundles, bundle_names, 1, NoVisit))

\* a call of resolve_dependencies on the loaded bundles.yml
ResolveDependencies ==
    /\ resolver.pc = "idle"
    /\ resolver' = [resolver EXCEPT
           !.pc = "called",
           !.result = resolve_dependencies(resolver.bundles, resolver.bundle_names)]
    /\ UNCHANGED << fs, tree, upstream_head, include_paths, excluded_paths, git_head, offered, runs >>

\* every bundles.yml of three bundles and every request of at most
\* MaxRequested names, known or not; no target and no template are involved
InitBundles ==
    /\ upstream_head = "c2"
    /\ git_head = MainBranch
    /\ include_paths = {}
    /\ excluded_paths = {}
    /\ offered = {}
    /\ tree = [c \in Commits |-> [p \in Paths |-> None]]
    /\ fs = [p \in Paths |-> None]
    /\ runs = [i \in RunIds |-> IdleRun]
    /\ \E bundles \in BundleGraphs :
          \E bundle_names \in NameLists(BundleNames \cup {Ghost}, MaxRequested) :
              resolver = [IdleResolver EXCEPT !.bundles = bundles,
                                              !.bundle_names = bundle_names]

NextBundles == ResolveDependencies

SpecBundles == InitBundles /\ [][NextBundles]_vars

\* ------------------------------------------------------------------------
\* Vocabulary of the properties
\* ------------------------------------------------------------------------

\* run i has started
Started(i) == runs[i].pc # "idle"

\* run i is the last run to have started: the target is as run i left it
Latest(i) == Started(i) /\ \A j \in RunIds : j > i => ~Started(j)

\* run i has fetched the upstream snapshot
Fetched(i) == runs[i].upstream_sha # None

\* the writes and removals a run made on the target, as places of its I/O log
Writes(io) == {k \in 1..Len(io) : io[k][1] \in {"write", "unlink"}}

\* the lock the target held when run i started
LockBefore(i) ==
    IF runs[i].pre[LOCK_FILE] = None THEN None ELSE Strip(runs[i].pre[LOCK_FILE])

\* the lock the target holds
LockNow == IF fs[LOCK_FILE] = None THEN None ELSE Strip(fs[LOCK_FILE])

\* the target files of a sync: the upstream paths that are included and not
\* excluded; the lock, the history and the template configuration are excluded
\* paths by definition of the exclusion set
TargetFiles ==
    {p \in Paths \ {LOCK_FILE, HISTORY_FILE, TEMPLATE_FILE, OLD_HISTORY_FILE} :
        /\ tree[upstream_head][p] # None
        /\ \E q \in include_paths : p = q \/ p \in FilesUnder(q)
        /\ ~\E q \in excluded_paths : p = q \/ p \in FilesUnder(q)}

\* upstream, base and local content of path p as run i met them; the base is
\* the content at the commit of the lock, None without such a commit
UpstreamOf(p) == tree[upstream_head][p]

BaseOf(i, p) ==
    IF LockBefore(i) # None /\ Len(LockBefore(i)) = 1 /\ LockBefore(i)[1] \in Commits
    THEN tree[LockBefore(i)[1]][p] ELSE None

LocalOf(i, p) == runs[i].pre[p]

\* ------------------------------------------------------------------------
\* Properties
\* ------------------------------------------------------------------------

\* C1 - Early exit: a sync of any strategy that finds the stored lock equal to
\* the upstream HEAD ends successfully ("up to date") having fetched only the
\* upstream snapshot, never the base, having written nothing, and the target
\* (target files, lock, history) is what it was before the run.
EarlyExit ==
    \A i \in RunIds :
        (Fetched(i) /\ LockBefore(i) = << upstream_head >>) =>
            /\ runs[i].pc = "done"
            /\ runs[i].outcome = "up to date"
            /\ runs[i].io = << <<"clone", "upstream">> >>
            /\ (Latest(i) => fs = runs[i].pre)

\* an overwrite sync left early although the local file differs from upstream
EarlyExitWitness ==
    \E i \in RunIds :
        /\ runs[i].strategy = "overwrite"
        /\ LockBefore(i) = << upstream_head >>
        /\ runs[i].outcome = "up to date"
        /\ FileA \in TargetFiles
        /\ fs[FileA] # UpstreamOf(FileA)

\* C2 - Idempotence: when a merge sync has run to completion and the next run
\* is a merge sync too, against the same upstream HEAD and the target as the
\* first run left it, the second run writes nothing: no target file, and the
\* lock and the history are what they were when it started.
Idempotence ==
    \A i \in RunIds : \A j \in RunIds :
        (/\ j = i + 1
         /\ runs[i].strategy = "merge" /\ runs[i].pc = "done"
         /\ runs[j].strategy = "merge" /\ runs[j].pc = "done"
         /\ runs[j].upstream_sha = runs[i].upstream_sha) =>
            /\ Writes(runs[j].io) = {}
            /\ (Latest(j) => fs = runs[j].pre)

\* the first merge sync wrote a conflicted file and the lock, the second one
\* is over
IdempotenceWitness ==
    /\ runs[1].strategy = "merge" /\ runs[1].outcome = "merge"
    /\ runs[1].report # << >>
    /\ LockBefore(1) = << "c1" >>
    /\ runs[2].strategy = "merge" /\ runs[2].pc = "done"

\* C3 - Diff purity: a sync with strategy diff writes nothing, whatever it
\* finds and whatever the lock was: no write and no removal is made, and the
\* lock file, the history file and every target file are what they were
\* before the run (a target without a lock file still has none).
DiffPurity ==
    \A i \in RunIds :
        (Started(i) /\ runs[i].strategy = "diff") =>
            /\ Writes(runs[i].io) = {}
            /\ (Latest(i) => fs = runs[i].pre)

\* a dry run that found a difference, on a target without a lock file
DiffPurityWitness ==
    \E i \in RunIds :
        /\ runs[i].outcome = "diff"
        /\ runs[i].changes > 0
        /\ LockBefore(i) = None
        /\ fs[LOCK_FILE] = None

\* C4 - Local-only preservation: after a merge sync, every target file whose
\* base content equals its upstream content and whose local content is there
\* and differs from both holds the local content exactly, and its path is not
\* in the conflict list of the run.
LocalOnlyPreservation ==
    \A i \in RunIds :
        (runs[i].strategy = "merge" /\ runs[i].pc = "done") =>
            \A p \in TargetFiles :
                (/\ BaseOf(i, p) # None
                 /\ BaseOf(i, p) = UpstreamOf(p)
                 /\ LocalOf(i, p) # None
                 /\ LocalOf(i, p) # UpstreamOf(p)) =>
                    /\ p \notin Range(runs[i].report)
                    /\ (Latest(i) => fs[p] = LocalOf(i, p))

\* a merge sync went through its loop and met a file only the user changed
LocalOnlyPreservationWitness ==
    \E i \in RunIds :
        /\ runs[i].outcome = "merge"
        /\ FileA \in TargetFiles
        /\ BaseOf(i, FileA) # None
        /\ BaseOf(i, FileA) = UpstreamOf(FileA)
        /\ LocalOf(i, FileA) \notin {None, UpstreamOf(FileA)}
        /\ fs[FileA] = LocalOf(i, FileA)

\* C5 - Upstream-only adoption: where the local content equals the base
\* content and the upstream content differs, the 3-way merge returns the
\* upstream content without a conflict, and after a merge sync the target
\* file holds the upstream content exactly and is not in the conflict list.
UpstreamOnlyAdoption ==
    /\ \A p \in {FileA, FileB} :
          (tree["c2"][p] # None /\ tree["c2"][p] # tree["c1"][p]) =>
              _merge_file(tree["c1"][p], tree["c2"][p], tree["c1"][p], p)
                  = << tree["c2"][p], FALSE >>
    /\ \A i \in RunIds :
          (runs[i].strategy = "merge" /\ runs[i].pc = "done") =>
              \A p \in TargetFiles :
                  (LocalOf(i, p) = BaseOf(i, p) /\ UpstreamOf(p) # BaseOf(i, p)) =>
                      /\ p \notin Range(runs[i].report)
                      /\ (Latest(i) => fs[p] = UpstreamOf(p))

\* a merge sync replaced a file the user had left as the base had it
UpstreamOnlyAdoptionWitness ==
    \E i \in RunIds :
        /\ runs[i].outcome = "merge"
        /\ FileA \in TargetFiles
        /\ LocalOf(i, FileA) # None
        /\ LocalOf(i, FileA) = BaseOf(i, FileA)
        /\ UpstreamOf(FileA) # BaseOf(i, FileA)
        /\ <<"write", FileA>> \in Range(runs[i].io)
        /\ fs[FileA] = UpstreamOf(FileA)

\* local and upstream each changed the same lines of base, to different
\* content: the diff base -> local and the diff base -> upstream hold a hunk
\* each over the same range of base lines, with different new lines
ChangedSameRange(base, loc, up) ==
    \E k1 \in 1..Len(DiffScript(base, loc)) : \E k2 \in 1..Len(DiffScript(base, up)) :
        LET h1 == DiffScript(base, loc)[k1]
            h2 == DiffScript(base, up)[k2]
        IN  /\ h1[1] = h2[1]
            /\ h1[2] = h2[2]
            /\ Slice(loc, h1[3], h1[4]) # Slice(up, h2[3], h2[4])

\* C6 - Conflict generation: after a merge sync, every target file in which
\* local and upstream each changed the same line range of base to different
\* content has been written with the marker line of the local side and the
\* marker line of the upstream side, and its path is in the conflict list the
\* run reports.
ConflictGeneration ==
    \A i \in RunIds :
        (runs[i].strategy = "merge" /\ runs[i].pc = "done") =>
            \A p \in TargetFiles :
                (/\ BaseOf(i, p) # None
                 /\ LocalOf(i, p) # None
                 /\ ChangedSameRange(BaseOf(i, p), LocalOf(i, p), UpstreamOf(p))) =>
                    /\ p \in Range(runs[i].report)
                    /\ <<"write", p>> \in Range(runs[i].io)
                    /\ (Latest(i) =>
                          /\ MarkerLocal(p) \in Range(fs[p])
                          /\ MarkerUpstream(p) \in Range(fs[p]))

\* a merge sync reported two conflicted files, both written with markers
ConflictGenerationWitness ==
    \E i \in RunIds :
        /\ runs[i].outcome = "merge"
        /\ runs[i].report = << FileA, FileB >>
        /\ ChangedSameRange(BaseOf(i, FileA), LocalOf(i, FileA), UpstreamOf(FileA))
        /\ MarkerLocal(FileA) \in Range(fs[FileA])
        /\ MarkerUpstream(FileA) \in Range(fs[FileA])
        /\ MarkerLocal(FileB) \in Range(fs[FileB])

\* C7 - New-file introduction: every target file that was absent from the
\* target when a merge or overwrite sync started exists after the sync with
\* the upstream content, whatever the lock and the base snapshot were. Stated
\* of the syncs that went through their loop and wrote the lock.
NewFileIntroduction ==
    \A i \in RunIds :
        (runs[i].pc = "done" /\ runs[i].outcome \in {"merge", "overwrite"}) =>
            \A p \in TargetFiles :
                (LocalOf(i, p) = None /\ Latest(i)) => fs[p] = UpstreamOf(p)

\* C8 - Resurrection of a locally deleted file: after a merge sync with a lock
\* different from the upstream HEAD, a target file whose upstream content is
\* the base content and whose local copy was deleted exists again, with the
\* upstream content.
Resurrection ==
    \A i \in RunIds :
        (/\ runs[i].strategy = "merge"
         /\ runs[i].pc = "done"
         /\ LockBefore(i) # << upstream_head >>) =>
            \A p \in TargetFiles :
                (/\ BaseOf(i, p) # None
                 /\ BaseOf(i, p) = UpstreamOf(p)
                 /\ LocalOf(i, p) = None
                 /\ Latest(i)) => fs[p] = UpstreamOf(p)

\* C9 - Lock advance: after a merge or overwrite sync that ended successfully
\* the lock file is there and holds exactly the upstream HEAD commit id the
\* run observed, whether or not there was a lock before and whether or not
\* files ended in conflict.
LockAdvance ==
    \A i \in RunIds :
        (runs[i].strategy \in {"merge", "overwrite"} /\ runs[i].pc = "done"
         /\ Latest(i)) =>
            /\ fs[LOCK_FILE] # None
            /\ LockNow = runs[i].upstream_sha
            /\ LockNow = << upstream_head >>

\* a first merge sync (no lock before) ended with a conflict and wrote the lock
LockAdvanceWitness ==
    \E i \in RunIds :
        /\ runs[i].outcome = "merge"
        /\ runs[i].report # << >>
        /\ LockBefore(i) = None
        /\ LockNow = << upstream_head >>

ReservedPaths == {TEMPLATE_FILE, HISTORY_FILE, LOCK_FILE}

\* C11 - Exclusion invariant: whatever the include and exclude lists and the
\* upstream tree, neither the template configuration path, nor the history
\* path, nor the lock path is a key of the upstream or the base snapshot that
\* a sync builds.
ExclusionInvariant ==
    \A i \in RunIds :
        (DOMAIN runs[i].upstream_files \cup DOMAIN runs[i].base_files)
            \cap ReservedPaths = {}

\* run i met a lock whose commit the template repository cannot check out
BaseUnavailable(i) ==
    /\ Fetched(i)
    /\ LockBefore(i) \notin {None, << >>}
    /\ ~CanCheckout(LockBefore(i))

\* C12 - Base-unavailable is recoverable: a sync that finds a lock whose
\* commit cannot be checked out upstream does not abort; it goes on with an
\* empty base snapshot and, when it is a merge or an overwrite that has ended,
\* the lock holds the upstream HEAD.
BaseUnavailableRecoverable ==
    \A i \in RunIds :
        BaseUnavailable(i) =>
            /\ runs[i].pc # "failed"
            /\ runs[i].base_files = NoFiles
            /\ (/\ runs[i].pc = "done"
                /\ runs[i].strategy \in {"merge", "overwrite"}
                /\ Latest(i)) => LockNow = << upstream_head >>

\* C13 - Fetch errors are fatal and leave no trace: a sync whose clone or
\* checkout of the upstream snapshot fails ends in failure, has written
\* nothing, and the lock file, the history file and every other file of the
\* target are what they were before the run.
FetchErrorsNoTrace ==
    \A i \in RunIds :
        runs[i].outcome = "clone failed" =>
            /\ runs[i].pc = "failed"
            /\ Writes(runs[i].io) = {}
            /\ (Latest(i) => fs = runs[i].pre)

\* the clone failed for a target that has a lock, a history and a file that
\* differs from upstream
FetchErrorsNoTraceWitness ==
    \E i \in RunIds :
        /\ runs[i].outcome = "clone failed"
        /\ Latest(i)
        /\ fs[LOCK_FILE] # None
        /\ fs[HISTORY_FILE] # None
        /\ FileA \in TargetFiles
        /\ fs[FileA] \notin {None, UpstreamOf(FileA)}

\* C14 - Configuration errors are detected first: a sync of a target whose
\* template configuration is invalid (no repository, no include list, or no
\* configuration file) fails before any clone is attempted and changes no
\* state of the target repository: neither its files nor the branch it is on.
ConfigErrorsFirst ==
    \A i \in RunIds :
        runs[i].outcome = "config invalid" =>
            /\ runs[i].pc = "failed"
            /\ runs[i].io = << >>
            /\ (Latest(i) => fs = runs[i].pre /\ git_head = runs[i].pre_head)

\* C15 - Strategy validation: a sync invoked with a strategy value other than
\* merge, overwrite or diff never runs under that value; it fails with a
\* usage error before any clone and writes nothing to the target, the lock or
\* the history.
StrategyValidation ==
    \A i \in RunIds :
        /\ runs[i].strategy \in Strategies \cup {""}
        /\ runs[i].outcome = "usage error" =>
              /\ runs[i].pc = "failed"
              /\ runs[i].io = << >>
              /\ ~Fetched(i)
              /\ (Latest(i) => fs = runs[i].pre)

\* a sync with an invalid strategy was refused on a target whose file differs
\* from upstream and that has no lock yet
StrategyValidationWitness ==
    \E i \in RunIds :
        /\ runs[i].outcome = "usage error"
        /\ Latest(i)
        /\ validate(fs)
        /\ fs[LOCK_FILE] = None
        /\ FileA \in TargetFiles
        /\ fs[FileA] # UpstreamOf(FileA)

\* the commit ids a lock may be asked to hold
CommitIds == Commits \cup {GoneCommit}

\* C16 - Lock store round trip: reading the lock of a target without a lock
\* file gives None, and after _write_lock(target, c), for any commit id c and
\* whatever the lock file held before, _read_lock gives exactly c. So a sync
\* that follows a completed merge or overwrite sync reads as its base the
\* commit that sync wrote, and a sync of a target without lock file reads None.
LockRoundTrip ==
    /\ (fs[LOCK_FILE] = None => _read_lock(fs) = None)
    /\ \A c \in CommitIds : _read_lock(_write_lock(fs, << c >>)) = << c >>
    /\ \A i \in RunIds :
          /\ (Fetched(i) /\ runs[i].pre[LOCK_FILE] = None) => runs[i].base_sha = None
          /\ \A j \in RunIds :
                (/\ j = i + 1
                 /\ runs[i].strategy \in {"merge", "overwrite"}
                 /\ runs[i].pc = "done"
                 /\ Fetched(i)
                 /\ Fetched(j)) => runs[j].base_sha = << upstream_head >>

\* a sync met a lock file edited by hand, wrote the lock, and the next sync
\* read the commit it wrote
LockRoundTripWitness ==
    \E i \in RunIds : \E j \in RunIds :
        /\ j = i + 1
        /\ runs[i].outcome \in {"merge", "overwrite"}
        /\ runs[i].pre[LOCK_FILE] \in EditedLocks
        /\ Fetched(j)
        /\ runs[j].base_sha = runs[i].upstream_sha

\* run i is a merge sync, an overwrite sync or a materialize that has ended
\* successfully
Completed(i) ==
    runs[i].pc = "done" /\ runs[i].outcome \in {"merge", "overwrite", "materialize"}

\* C17 - History record content: after every completed merge sync, overwrite
\* sync or materialize the history file holds the comment header and then the
\* materialized paths of the run, each exactly once, in sorted order; nothing
\* of the previous record is left, in the new or in the old location.
HistoryRecordContent ==
    \A i \in RunIds :
        (Completed(i) /\ Latest(i)) =>
            /\ fs[HISTORY_FILE] =
                   HistoryHeader \o SeqOfSet(Range(runs[i].materialized), 1)
            /\ fs[OLD_HISTORY_FILE] = None

\* the paths the history record listed when run i started that run i did not
\* materialize
OrphansOf(i) ==
    previously_tracked_files(runs[i].pre) \ Range(runs[i].materialized)

\* C18 - Orphan cleanup: after a merge sync, an overwrite sync or a
\* materialize has completed, no path that the previous history record listed
\* and the run did not materialize exists in the target.
OrphanCleanup ==
    \A i \in RunIds :
        (Completed(i) /\ Latest(i)) => \A p \in OrphansOf(i) : fs[p] = None

\* C19 - Protected configuration path: the orphan cleanup never deletes the
\* template configuration file, even when the previous history record lists
\* it and the run did not materialize it: a target that had the file before a
\* materialize has it afterwards.
ProtectedConfiguration ==
    \A i \in RunIds :
        (/\ runs[i].outcome = "materialize"
         /\ Latest(i)
         /\ runs[i].pre[TEMPLATE_FILE] # None) => fs[TEMPLATE_FILE] # None

\* the upstream files of run i that differ from the target: the local file is
\* absent, or its content is not the upstream content
Differing(i) ==
    {p \in DOMAIN runs[i].upstream_files :
        fs[p] = None \/ fs[p] # runs[i].upstream_files[p]}

\* C20 - Diff reporter result: for every upstream content and every local
\* content the dry run meets, _diff_file gives None exactly when the local
\* file is present and equal to the upstream content; for an absent local
\* file it gives a diff, also when the upstream content is empty. So the dry
\* run counts exactly the upstream files that differ from the target.
DiffReporterResult ==
    \A i \in RunIds :
        /\ runs[i].pc = "diff" =>
              \A p \in DOMAIN runs[i].upstream_files :
                  (_diff_file(runs[i].upstream_files[p], fs[p]) = None)
                      <=> (fs[p] # None /\ fs[p] = runs[i].upstream_files[p])
        /\ (runs[i].outcome = "diff" /\ Latest(i)) =>
              runs[i].changes = Cardinality(Differing(i))

\* run i is a merge or overwrite sync that has not reached the write of the
\* lock: it is in its loop, before the history or the lock, or it has stopped
\* there
BeforeLockWrite(i) ==
    /\ runs[i].strategy \in {"merge", "overwrite"}
    /\ \/ runs[i].pc \in {"merge", "overwrite", "lock"}
       \/ runs[i].outcome \in {"interrupted", "write failed", "exit 1"}

\* C21 - Lock is committed last: in a merge or overwrite sync the lock file
\* is written only after every upstream file has been processed and the
\* history written; as long as the run has not reached that point, and when
\* it stops before it, the lock file holds what it held before the run.
LockCommittedLast ==
    \A i \in RunIds :
        (BeforeLockWrite(i) /\ Latest(i)) =>
            /\ fs[LOCK_FILE] = runs[i].pre[LOCK_FILE]
            /\ <<"write", LOCK_FILE>> \notin Range(runs[i].io)

\* the content of path p after run i, had run i gone through its merge loop
\* without interruption
Uninterrupted(i, p) ==
    IF MergeTurn(runs[i], runs[i].pre, p).write
    THEN MergeTurn(runs[i], runs[i].pre, p).merged
    ELSE runs[i].pre[p]

\* run j is the merge sync that is run to completion after the merge sync i
\* was interrupted, against the same base and the same upstream
RetryOf(i, j) ==
    /\ j = i + 1
    /\ runs[i].strategy = "merge"
    /\ runs[i].outcome = "interrupted"
    /\ runs[j].outcome = "merge"
    /\ runs[j].upstream_files = runs[i].upstream_files
    /\ runs[j].base_files = runs[i].base_files

\* C22 - Retry after interruption is idempotent per file: when a merge sync
\* is interrupted after it has written some files, the lock not yet written,
\* and is run again to completion against the same base and upstream, every
\* target file ends with the content one uninterrupted run would have given
\* it, for clean merges and for conflicted files alike.
RetryIdempotent ==
    \A i \in RunIds : \A j \in RunIds :
        RetryOf(i, j) =>
            \A p \in DOMAIN runs[i].upstream_files : fs[p] = Uninterrupted(i, p)

\* C23 - Single-file write failure is skipped: a merge or overwrite sync in
\* which the write of one file failed does not end with upstream files left
\* unprocessed; every file that came after the failed one in the loop has
\* been processed by the same run.
WriteFailureSkipped ==
    \A i \in RunIds :
        (runs[i].pc = "failed" /\ runs[i].outcome = "write failed") =>
            \A p \in Range(Tail(runs[i].todo)) : p \in Range(runs[i].materialized)

\* C24 - Atomic lock overwrite: whenever a run is interrupted inside its lock
\* write, reading the lock afterwards gives what reading it gave just before
\* the write (None without a lock file) or the complete commit id the run was
\* writing, never an empty or partly written value.
AtomicLockOverwrite ==
    [][\A i \in RunIds :
          (runs[i].pc = "lock" /\ runs'[i].outcome = "lock write interrupted") =>
              _read_lock(fs') \in {_read_lock(fs), runs[i].upstream_sha}]_vars

RECURSIVE LinesKept(_, _)
\* every line of the text local is in the text merged, in the same order
LinesKept(local, merged) ==
    IF local = << >> THEN TRUE
    ELSE IF merged = << >> THEN FALSE
    ELSE IF Head(local) = Head(merged) THEN LinesKept(Tail(local), Tail(merged))
    ELSE LinesKept(local, Tail(merged))

\* run i holds no base content for the path p
NoBase(i, p) == p \notin DOMAIN runs[i].base_files \/ runs[i].base_files[p] = None

\* the merge loop of run i is about to process a file without base content
\* whose local content exists and differs from upstream
LocalWithoutBase(i) ==
    /\ runs[i].pc = "merge"
    /\ runs[i].todo # << >>
    /\ NoBase(i, Head(runs[i].todo))
    /\ fs[Head(runs[i].todo)] # None
    /\ fs[Head(runs[i].todo)] # runs[i].upstream_files[Head(runs[i].todo)]

AfterOverwrite(i) ==
    _write_lock(
        _write_history_file(
            [p \in DOMAIN runs[i].pre |->
                IF p \in DOMAIN runs[i].upstream_files
                THEN runs[i].upstream_files[p] ELSE runs[i].pre[p]],
            runs[i].materialized),
        runs[i].upstream_sha)

\* C26 - First sync equals overwrite: after a merge sync that found no lock
\* file and ran to completion, the target files, the history and the lock are
\* what an overwrite sync against the same upstream would have left, whatever
\* the target held before.
FirstSyncEqualsOverwrite ==
    \A i \in RunIds :
        (/\ runs[i].strategy = "merge"
         /\ runs[i].pc = "done"
         /\ runs[i].outcome = "merge"
         /\ LockBefore(i) = None
         /\ Latest(i)) =>
            fs = AfterOverwrite(i)

\* how many times x stands in the sequence s
Times(s, x) == Cardinality({k \in 1..Len(s) : s[k] = x})

\* the merge loop of run i is over and nothing has been written since
LoopOver(i) == runs[i].pc = "merge" /\ runs[i].todo = << >> /\ Latest(i)

\* the outcome of path p in run i is unchanged: local equals upstream
Unchanged(i, p) == runs[i].pre[p] = runs[i].upstream_files[p]

\* the outcome of path p in run i is local-only: upstream equals the base
LocalOnly(i, p) ==
    /\ ~Unchanged(i, p)
    /\ ~NoBase(i, p)
    /\ runs[i].base_files[p] = runs[i].upstream_files[p]

SyncRun(i) == Started(i) /\ runs[i].outcome # "materialize"

\* the paths a sync run may touch: the upstream paths it considers, the
\* history, the lock and the history file of the old location
SyncFrame(i) ==
    DOMAIN runs[i].upstream_files \cup {HISTORY_FILE, LOCK_FILE, OLD_HISTORY_FILE}

AtWork(i) == runs[i].pc \in {"merge", "overwrite", "lock"}

\* run i ran its strategy to completion
Completed2(i) == runs[i].pc = "done" /\ runs[i].outcome \in {"merge", "overwrite"}

\* C28 - No mutual exclusion between runs: sync takes no lock on the target.
\* While a merge or overwrite sync is at work on the target, the next sync can
\* start on the same target; and every lock write takes effect whatever the
\* other run has written, so that once both runs have ended the lock records
\* the commit of the run that wrote it last.
NoMutualExclusion ==
    /\ \A i \in RunIds : \A j \in RunIds :
          (/\ j < i /\ AtWork(j)
           /\ runs[i].pc = "idle"
           /\ \A k \in RunIds : k < i => runs[k].pc # "idle") =>
              ENABLED (\E c \in WritingSyncs : SyncStartRacing(i, c))
    /\ (\A i \in RunIds : Completed2(i)) =>
          \E i \in RunIds : fs[LOCK_FILE] = WithNewline(runs[i].upstream_sha)

\* two syncs with different upstream HEADs interleaved and both ended: the
\* lock records the commit of one run, while FileA and the history record
\* are what the other run wrote
NoMutualExclusionWitness ==
    \E i \in RunIds : \E j \in RunIds :
        /\ i # j
        /\ Completed2(i) /\ Completed2(j)
        /\ runs[i].upstream_sha # runs[j].upstream_sha
        /\ fs[LOCK_FILE] = WithNewline(runs[i].upstream_sha)
        /\ fs[FileA] = runs[j].upstream_files[FileA]
        /\ fs[FileA] # runs[i].upstream_files[FileA]
        /\ fs[HISTORY_FILE] = HistoryHeader \o Sorted(runs[j].materialized)
        /\ fs[HISTORY_FILE] # HistoryHeader \o Sorted(runs[i].materialized)

\* the names bundle n of bundles.yml depends on
DependsOn(n) == Range(resolver.bundles[n])

RECURSIVE DependencyClosure(_)
\* the names of S with everything they depend on, directly or not
DependencyClosure(S) ==
    IF UNION {DependsOn(n) : n \in S \cap DOMAIN resolver.bundles} \subseteq S THEN S
    ELSE DependencyClosure(
             S \cup UNION {DependsOn(n) : n \in S \cap DOMAIN resolver.bundles})

\* the requested bundles and their transitive dependencies
Needed == DependencyClosure(Range(resolver.bundle_names))

\* a requested name that bundles.yml does not define
UnknownRequested == \E n \in Range(resolver.bundle_names) : n \notin DOMAIN resolver.bundles

\* a requested bundle depends, directly or not, on a name bundles.yml does
\* not define
UnknownDependency ==
    ~UnknownRequested /\ \E n \in Needed : n \notin DOMAIN resolver.bundles

\* a dependency cycle can be reached from a requested bundle
ReachableCycle ==
    \E n \in Needed \cap DOMAIN resolver.bundles : n \in DependencyClosure(DependsOn(n))

\* the place of the name n in the list l
PlaceIn(l, n) == CHOOSE k \in 1..Len(l) : l[k] = n

\* C30 - Bundle dependency resolution: called on requested names that all
\* exist, with no dependency cycle and no unknown dependency within reach,
\* resolve_dependencies returns the requested bundles and their transitive
\* dependencies and nothing else, each exactly once, every bundle after all
\* the bundles it depends on; with a reachable dependency cycle, an unknown
\* requested name or an unknown dependency it raises ValueError instead.
BundleResolution ==
    resolver.pc = "called" =>
        IF UnknownRequested \/ UnknownDependency \/ ReachableCycle
        THEN resolver.result.raised
        ELSE /\ ~resolver.result.raised
             /\ Range(resolver.result.resolved) = Needed
             /\ Len(resolver.result.resolved) = Cardinality(Needed)
             /\ \A n \in Needed : \A d \in DependsOn(n) :
                    PlaceIn(resolver.result.resolved, d)
                        < PlaceIn(resolver.result.resolved, n)

\* docs depends on tests and on core, tests depends on core; docs and tests
\* are requested: the call returned core, tests, docs, core listed once
BundleResolutionWitness ==
    /\ resolver.pc = "called"
    /\ resolver.bundles["docs"] = <<"tests", "core">>
    /\ resolver.bundles["tests"] = <<"core">>
    /\ resolver.bundles["core"] = << >>
    /\ resolver.bundle_names = <<"docs", "tests">>
    /\ resolver.result = Returned(<<"core", "tests", "docs">>)

=============================================================================
